---- MODULE Spec2Model ----
(***************************************************************************)
(* Photobooth Fleet Command (app.py): a Streamlit dashboard over a Dropbox *)
(* account.  Every operator session re-runs the script top to bottom; the  *)
(* Dropbox account is the only shared state.  Each storage call is one     *)
(* atomic step, so that script runs of different sessions interleave       *)
(* between the load of a config and its save.                              *)
(***************************************************************************)
EXTENDS Integers, Sequences, FiniteSets, TLC

\* ---------------------------------------------------------------- bounds
NumSessions == 2
NumStations == 2
NumBlobs == 1
MaxLog == 2

\* ------------------------------------------------------------- constants
GLOBAL_ASSETS == "/_Global_Assets"
ACTIONS_FOLDER == GLOBAL_ASSETS \o "/Actions"
HEALTH_FOLDER == GLOBAL_ASSETS \o "/_Server_Health"

\* the master station list, in the order sorted() gives it
KNOWN_STATIONS ==
  << "DC Standard", "Dell Laptop", "Dell XPS", "DellNew1", "DellNew2",
     "DellNew3", "DellNew4", "HP1", "HP2", "HP3", "HP4", "HP_Envy",
     "Laptop 3", "Lenovo 1", "Lenovo 2", "Mini1BackUp", "Mini1Standard",
     "Mini2BackUp", "Mini2Standard", "Mini3", "Mini3BackUp",
     "Mini4Standard", "TXStandard" >>

SUBFOLDER_OPTIONS ==
  << "001", "002", "003", "004", "005", "006", "007", "008", "009" >>

\* the settings tab's orientation choices
modes == << "auto", "force_portrait", "force_landscape" >>

\* ------------------------------------------------------ bounded input sets
Sessions == 1 .. NumSessions
\* the stations the operators select, taken from the master list
Stations == { KNOWN_STATIONS[i] : i \in 8 .. (7 + NumStations) }
\* contents of the files the operators pick in the file uploaders
Blobs == { [kind |-> "blob", id |-> i] : i \in 1 .. NumBlobs }
\* what the operators type in the "Sub-Profile" text input
Suffixes == { "", "007" }
\* the subfolders the operators pick in the select box
Subfolders == { SUBFOLDER_OPTIONS[1] }
\* the slider positions the operators choose (domain -100 .. 100)
TempChoices == { -100, 0, 100 }
\* the .atn file names the operators upload to the legacy global folder
GlobalNames == { "Wedding.atn" }

None == [none |-> TRUE]

\* ------------------------------------------------------------------ state
VARIABLES
  files,             \* Dropbox: path -> content
  folders,           \* Dropbox: the folders created with files_create_folder_v2
  pc,                \* per session: position of its script run
  startup,           \* per session: outcome of the connection block of the run in progress
  selected_station,  \* per session: the station of the run in progress
  config,            \* per session: the in-memory config document of the run in progress
  is_enabled,        \* per session: the value read at the master switch
  status,            \* per session: the status label on the page
  exc,               \* per session: the page shows an uncaught exception
  call,              \* per session: the upload_action_to_station call and its result
  log                \* every storage write attempted, in order

vars == << files, folders, pc, startup, selected_station, config,
           is_enabled, status, exc, call, log >>

\* ------------------------------------------------------- storage (Dropbox)
\* files_upload in WriteMode.add: an existing file is left as it is
files_upload_add(f, path, data) ==
  IF path \in DOMAIN f THEN f
  ELSE [p \in DOMAIN f \cup {path} |-> IF p = path THEN data ELSE f[p]]

\* dbx.files_upload(data, path, mode=overwrite)
files_upload(f, path, data) ==
  [p \in DOMAIN f \cup {path} |-> IF p = path THEN data ELSE f[p]]

\* ------------------------------------------------------------------- JSON
BoolKeys == { "station_enabled", "remove_background" }

json_value(k, v) ==
  IF k \in BoolKeys THEN (IF v THEN "true" ELSE "false") ELSE v

py_value(k, v) ==
  IF k \in BoolKeys THEN v = "true" ELSE v

\* json.dumps(config_data, indent=2).encode('utf-8')
json_dumps(c) ==
  [kind |-> "json",
   text |-> [k \in DOMAIN c |->
               IF k = "settings"
               THEN [j \in DOMAIN c[k] |-> json_value(j, c[k][j])]
               ELSE json_value(k, c[k])]]

\* json.load(io.BytesIO(res.content)); raises on anything that is not JSON
json_load(content) ==
  IF content.kind # "json" THEN None
  ELSE [k \in DOMAIN content.text |->
          IF k = "settings"
          THEN [j \in DOMAIN content.text[k] |-> py_value(j, content.text[k][j])]
          ELSE py_value(k, content.text[k])]

\* ------------------------------------------------------------------ paths
config_path(station_id) == "/" \o station_id \o "/config.json"

\* load_config falling back to the default document instead of None
load_config_or_default(f, station_id, ok) ==
  IF ok /\ config_path(station_id) \in DOMAIN f
  THEN json_load(f[config_path(station_id)])
  ELSE [ server_id |-> "Unassigned", station_id |-> station_id,
         station_enabled |-> TRUE,
         settings |-> [ remove_background |-> FALSE, remove_bg_api_key |-> "",
                        orientation_mode |-> "auto", temperature |-> 0 ] ]

\* load_config: a failed download, a missing file and malformed JSON all
\* give None
load_config(f, station_id, ok) ==
  IF ok /\ config_path(station_id) \in DOMAIN f
  THEN json_load(f[config_path(station_id)])
  ELSE None

\* the default document with the station switched off
default_data_disabled(station_id) ==
  [ server_id |-> "Unassigned",
    station_id |-> station_id,
    station_enabled |-> FALSE,
    settings |-> [ remove_background |-> FALSE,
                   remove_bg_api_key |-> "",
                   orientation_mode |-> "auto",
                   temperature |-> 0 ],
    active_profile |->
      [ portrait |-> [action_set |-> "Global_Actions", action_name |-> "Portrait"],
        landscape |-> [action_set |-> "Global_Actions", action_name |-> "Landscape"] ],
    subfolder_action_set |-> "Event_Subfolders" ]

default_data(station_id) ==
  [ server_id |-> "Unassigned",
    station_id |-> station_id,
    station_enabled |-> TRUE,
    settings |-> [ remove_background |-> FALSE,
                   remove_bg_api_key |-> "",
                   orientation_mode |-> "auto",
                   temperature |-> 0 ],
    active_profile |->
      [ portrait |-> [action_set |-> "Global_Actions", action_name |-> "Portrait"],
        landscape |-> [action_set |-> "Global_Actions", action_name |-> "Landscape"] ],
    subfolder_action_set |-> "Event_Subfolders" ]

\* ------------------------------------------------- startup (lines 35-59)
\* the credentials found in the environment
Credentials == { "refresh_token", "token", "none" }

\* the connection block without st.stop() after the credentials error
connect_no_stop(creds, ctor_ok, check_ok) ==
  IF creds = "none"
  THEN [halted |-> FALSE, error |-> "Missing Dropbox Credentials", check_failed |-> ~check_ok]
  ELSE IF ~ctor_ok
  THEN [halted |-> TRUE, error |-> "Dropbox Connection Failed", check_failed |-> FALSE]
  ELSE [halted |-> FALSE, error |-> "", check_failed |-> ~check_ok]

\* The connection block.  creds: what the environment holds; ctor_ok: the
\* construction of the client did not raise; check_ok: the soft check
\* dbx.users_get_current_account() did not raise.
connect(creds, ctor_ok, check_ok) ==
  IF creds = "none"
  THEN [halted |-> TRUE, error |-> "Missing Dropbox Credentials", check_failed |-> FALSE]
  ELSE IF ~ctor_ok
  THEN [halted |-> TRUE, error |-> "Dropbox Connection Failed", check_failed |-> FALSE]
  ELSE [halted |-> FALSE, error |-> "", check_failed |-> ~check_ok]

NotStarted == [halted |-> FALSE, error |-> "", check_failed |-> FALSE]

\* ---------------------------------------------------- fleet (lines 62-75)
\* the health files the supervisor keeps in HEALTH_FOLDER
HealthEntries ==
  << [stem |-> "S1", ext |-> ".json"], [stem |-> "broken", ext |-> ".json"],
     [stem |-> "readme", ext |-> ".txt"] >>

entry_path(e) == HEALTH_FOLDER \o "/" \o e.stem \o e.ext

HealthRecord ==
  [ server_id |-> "S1", status |-> "ONLINE",
    active_stations |-> << KNOWN_STATIONS[8] >>,
    standby_stations |-> << >> ]

\* get_fleet_data: a failed list gives no servers; an entry that fails to
\* download or to parse is dropped
get_fleet_data(f, list_ok, download_ok) ==
  IF ~list_ok THEN << >>
  ELSE LET entries == SelectSeq(HealthEntries, LAMBDA e : entry_path(e) \in DOMAIN f)
           good(e) == /\ e.ext = ".json"
                      /\ download_ok
                      /\ json_load(f[entry_path(e)]) # None
           kept == SelectSeq(entries, good)
       IN [i \in 1 .. Len(kept) |-> json_load(f[entry_path(kept[i])])]

Range(q) == { q[i] : i \in 1 .. Len(q) }

\* the choices of the "Filter by Server" select box
filter_choices(fleet) ==
  {"All Stations"} \cup { r.server_id : r \in Range(fleet) }

\* the choices of the "Select Station to Configure" select box
display_list(fleet, filter_server) ==
  IF filter_server # "All Stations"
  THEN UNION { Range(r.active_stations) \cup Range(r.standby_stations) :
               r \in { x \in Range(fleet) : x.server_id = filter_server } }
  ELSE Stations

\* ------------------------------------------------------------ the log
Entry(s, op, station_id, path, ok, data, base, arg) ==
  [sess |-> s, op |-> op, station |-> station_id, path |-> path, ok |-> ok,
   data |-> data, base |-> base, arg |-> arg]

Pending == Cardinality({ s \in Sessions : pc[s] = "uploading" })

CanWrite(n) == Len(log) + Pending + n <= MaxLog

NoCall == [active |-> FALSE]

\* config.get("station_enabled", True)
get_station_enabled(c) ==
  IF "station_enabled" \in DOMAIN c THEN c.station_enabled ELSE TRUE

\* the label taken the wrong way round
status_label_swapped(new_enabled) ==
  IF new_enabled THEN "Disabled (Ignoring Photos)" ELSE "Active"

\* the label next to the master switch (lines 304-307)
status_label(new_enabled) ==
  IF new_enabled THEN "Active" ELSE "Disabled (Ignoring Photos)"

\* ------------------------------------------------------------------ Init
HealthFile == entry_path(HealthEntries[1])

\* a health file cut short while the supervisor was writing it
BrokenHealthFile == entry_path(HealthEntries[2])

\* The account as the sessions find it: the supervisor's health files, the
\* first station configured earlier and assigned to the server, the other
\* stations not configured yet.
Init ==
  /\ files = [p \in {HealthFile, BrokenHealthFile, config_path(KNOWN_STATIONS[8])} |->
                IF p = HealthFile
                THEN json_dumps(HealthRecord)
                ELSE IF p = BrokenHealthFile
                THEN [kind |-> "text", text |-> "{"]
                ELSE json_dumps([default_data(KNOWN_STATIONS[8]) EXCEPT
                                   !.server_id = HealthRecord.server_id])]
  /\ folders = {}
  /\ pc = [s \in Sessions |-> "idle"]
  /\ startup = [s \in Sessions |-> NotStarted]
  /\ selected_station = [s \in Sessions |-> ""]
  /\ config = [s \in Sessions |-> None]
  /\ is_enabled = [s \in Sessions |-> TRUE]
  /\ status = [s \in Sessions |-> ""]
  /\ exc = [s \in Sessions |-> FALSE]
  /\ call = [s \in Sessions |-> NoCall]
  /\ log = << >>

\* ---------------------------------------------------------------- actions
\* lines 35-59: a script run starts (every interaction runs the script from
\* its first line): the page is cleared and the connection block runs
Connect(s) ==
  /\ pc[s] = "idle"
  /\ \E r \in { connect(creds, ctor_ok, check_ok) :
                creds \in Credentials, ctor_ok \in BOOLEAN, check_ok \in BOOLEAN } :
       /\ startup' = [startup EXCEPT ![s] = r]
       /\ pc' = [pc EXCEPT ![s] = IF r.halted THEN "halted" ELSE "connected"]
  /\ status' = [status EXCEPT ![s] = ""]
  /\ exc' = [exc EXCEPT ![s] = FALSE]
  /\ call' = [call EXCEPT ![s] = NoCall]
  /\ UNCHANGED << files, folders, selected_station, config, is_enabled, log >>

\* the stations the operator can reach in a run whose fleet read gave fleet
reachable_stations(fleet) ==
  UNION { display_list(fleet, filter_server) : filter_server \in filter_choices(fleet) }

\* lines 205-297: the script run up to the master switch: the fleet is read,
\* the operator's station is selected and its config is loaded
Render(s) ==
  /\ pc[s] = "connected"
  /\ \E fleet \in { get_fleet_data(files, list_ok, download_ok) :
                    list_ok \in BOOLEAN, download_ok \in BOOLEAN } :
       \E st \in reachable_stations(fleet) :
         \E c \in { load_config(files, st, read_ok) : read_ok \in BOOLEAN } :
           /\ selected_station' = [selected_station EXCEPT ![s] = st]
           /\ config' = [config EXCEPT ![s] = c]
           /\ is_enabled' = [is_enabled EXCEPT ![s] =
                               IF c = None THEN TRUE ELSE get_station_enabled(c)]
  /\ pc' = [pc EXCEPT ![s] = "loaded"]
  /\ UNCHANGED << files, folders, startup, status, exc, call, log >>

\* the script run of s is over (its end, st.rerun() or an exception): the
\* variables of the run are gone, the page stays
RunOver(s) ==
  /\ pc' = [pc EXCEPT ![s] = "idle"]
  /\ selected_station' = [selected_station EXCEPT ![s] = ""]
  /\ config' = [config EXCEPT ![s] = None]
  /\ is_enabled' = [is_enabled EXCEPT ![s] = TRUE]
  /\ startup' = [startup EXCEPT ![s] = NotStarted]

\* ------------------------------------------- writes (lines 108-135, 190-202)
\* save_config: the whole document is uploaded over the old one; a failed
\* upload raises out of save_config
save_config(f, config_data, path, ok) ==
  IF ok
  THEN [files |-> files_upload(f, path, json_dumps(config_data)), raised |-> FALSE]
  ELSE [files |-> f, raised |-> TRUE]

\* create_default_config: the default document is saved at once
create_default_config(f, station_id, ok) ==
  LET r == save_config(f, default_data(station_id), config_path(station_id), ok)
  IN [files |-> r.files, raised |-> r.raised,
      config |-> default_data(station_id), path |-> config_path(station_id)]

\* upload_asset: a failed upload raises out of upload_asset
upload_asset(f, uploaded_file, target_path, ok) ==
  IF ok
  THEN [files |-> files_upload(f, target_path, uploaded_file), raised |-> FALSE]
  ELSE [files |-> f, raised |-> TRUE]

station_folders(station_id) ==
  { "/" \o station_id \o "/actions", "/" \o station_id \o "/incoming",
    "/" \o station_id \o "/processed", "/" \o station_id \o "/final" }

\* ensure_station_folders: every failure of files_create_folder_v2 is ignored
ensure_station_folders(fo, station_id, create_ok) ==
  IF create_ok THEN fo \cup station_folders(station_id) ELSE fo

\* ------------------------------------------- the not-configured branch
\* lines 288-293 without a click: the warning is all the run shows
ConfigMissing(s) ==
  /\ pc[s] = "loaded"
  /\ config[s] = None
  /\ RunOver(s)
  /\ UNCHANGED << files, folders, status, exc, call, log >>

\* lines 290-293: "Initialize Config Now"
Initialize(s) ==
  /\ pc[s] = "loaded"
  /\ config[s] = None
  /\ CanWrite(1)
  /\ \E ok \in BOOLEAN, create_ok \in BOOLEAN :
       LET st == selected_station[s]
           r == create_default_config(files, st, ok)
       IN /\ files' = r.files
          /\ log' = Append(log, Entry(s, "create_default_config", st, r.path,
                                      ~r.raised, json_dumps(r.config), None, ""))
          /\ exc' = [exc EXCEPT ![s] = r.raised]
          /\ folders' = IF r.raised THEN folders
                        ELSE ensure_station_folders(folders, st, create_ok)
  /\ RunOver(s)
  /\ UNCHANGED << status, call >>

\* ------------------------------------------------------ the master switch
\* the document built anew around the switch instead of changed in place
set_station_enabled_anew(c, new_enabled) ==
  [ server_id |-> "Unassigned", station_id |-> "", station_enabled |-> new_enabled,
    settings |-> c.settings ]

\* line 310: config["station_enabled"] = new_enabled
set_station_enabled(c, new_enabled) ==
  [k \in DOMAIN c \cup {"station_enabled"} |->
     IF k = "station_enabled" THEN new_enabled ELSE c[k]]

\* lines 297-312 with the toggle flipped: the label follows the toggle, the
\* document is changed in memory and saved whole
Toggle(s) ==
  /\ pc[s] = "loaded"
  /\ config[s] # None
  /\ CanWrite(1)
  /\ \E ok \in BOOLEAN :
       LET new_enabled == ~is_enabled[s]
           c == set_station_enabled(config[s], new_enabled)
           path == config_path(selected_station[s])
           r == save_config(files, c, path, ok)
       IN /\ status' = [status EXCEPT ![s] = status_label(new_enabled)]
          /\ files' = r.files
          /\ exc' = [exc EXCEPT ![s] = r.raised]
          /\ log' = Append(log, Entry(s, "save_config", selected_station[s], path,
                                      ~r.raised, json_dumps(c), config[s],
                                      "station_enabled"))
  /\ RunOver(s)
  /\ UNCHANGED << folders, call >>

\* lines 297-316 with the toggle left alone on a disabled station: no tab
\* is rendered
StationOff(s) ==
  /\ pc[s] = "loaded"
  /\ config[s] # None
  /\ ~is_enabled[s]
  /\ status' = [status EXCEPT ![s] = status_label(is_enabled[s])]
  /\ RunOver(s)
  /\ UNCHANGED << files, folders, exc, call, log >>

\* the tabs rendered whatever the master switch says
TabsShown_always(s) ==
  /\ pc[s] = "loaded"
  /\ config[s] # None

\* the guard of the four tabs (line 316), the toggle left alone
TabsShown(s) ==
  /\ pc[s] = "loaded"
  /\ config[s] # None
  /\ is_enabled[s]

\* lines 316-514 with no widget touched
ViewTabs(s) ==
  /\ TabsShown(s)
  /\ status' = [status EXCEPT ![s] = status_label(is_enabled[s])]
  /\ RunOver(s)
  /\ UNCHANGED << files, folders, exc, call, log >>

\* ------------------------------------------------- settings (lines 424-448)
\* one widget of the settings tab changed: the field is set in memory and
\* the whole document is saved; there is no rerun
SaveSetting(s, key, value) ==
  /\ TabsShown(s)
  /\ CanWrite(1)
  /\ \E ok \in BOOLEAN :
       LET c == [config[s] EXCEPT !.settings[key] = value]
           path == config_path(selected_station[s])
           r == save_config(files, c, path, ok)
       IN /\ files' = r.files
          /\ exc' = [exc EXCEPT ![s] = r.raised]
          /\ log' = Append(log, Entry(s, "save_config", selected_station[s], path,
                                      ~r.raised, json_dumps(c), config[s], key))
  /\ status' = [status EXCEPT ![s] = status_label(is_enabled[s])]
  /\ RunOver(s)
  /\ UNCHANGED << folders, call >>

\* lines 427-432
SetRemoveBackground(s) ==
  /\ config[s] # None
  /\ SaveSetting(s, "remove_background", ~config[s].settings.remove_background)

\* lines 434-439
SetTemperature(s) ==
  /\ config[s] # None
  /\ \E new_temp \in TempChoices \ {config[s].settings.temperature} :
       SaveSetting(s, "temperature", new_temp)

\* lines 442-448
SetOrientation(s) ==
  /\ config[s] # None
  /\ \E new_mode \in Range(modes) \ {config[s].settings.orientation_mode} :
       SaveSetting(s, "orientation_mode", new_mode)

\* --------------------------------------------------- assets (lines 451-472)
\* the background name without the suffix
background_name_no_suffix(suffix) == "background.jpg"

\* the file name of a template upload (lines 460 and 468)
background_name(suffix) ==
  IF suffix # "" THEN "background" \o suffix \o ".jpg" ELSE "background.jpg"

overlay_name(suffix) ==
  IF suffix # "" THEN "overlay" \o suffix \o ".png" ELSE "overlay.png"

template_path(station_id, name) == "/" \o station_id \o "/templates/" \o name

UploadTemplate(s, op, name, suffix, file) ==
  /\ TabsShown(s)
  /\ CanWrite(1)
  /\ \E ok \in BOOLEAN :
       LET path == template_path(selected_station[s], name)
           r == upload_asset(files, file, path, ok)
       IN /\ files' = r.files
          /\ exc' = [exc EXCEPT ![s] = r.raised]
          /\ log' = Append(log, Entry(s, op, selected_station[s], path,
                                      ~r.raised, file, None, suffix))
  /\ status' = [status EXCEPT ![s] = status_label(is_enabled[s])]
  /\ RunOver(s)
  /\ UNCHANGED << folders, call >>

\* lines 458-464: "Upload BG"
UploadBG(s) ==
  \E suffix \in Suffixes, bg \in Blobs :
    UploadTemplate(s, "Upload BG", background_name(suffix), suffix, bg)

\* lines 466-472: "Upload Overlay"
UploadOverlay(s) ==
  \E suffix \in Suffixes, ol \in Blobs :
    UploadTemplate(s, "Upload Overlay", overlay_name(suffix), suffix, ol)

\* lines 507-514: "Upload to Global" (legacy)
UploadGlobal(s) ==
  /\ TabsShown(s)
  /\ CanWrite(1)
  /\ \E name \in GlobalNames, up_atn \in Blobs, ok \in BOOLEAN :
       LET path == ACTIONS_FOLDER \o "/" \o name
           r == upload_asset(files, up_atn, path, ok)
       IN /\ files' = r.files
          /\ exc' = [exc EXCEPT ![s] = r.raised]
          /\ log' = Append(log, Entry(s, "Upload to Global", "", path,
                                      ~r.raised, up_atn, None, name))
  /\ status' = [status EXCEPT ![s] = status_label(is_enabled[s])]
  /\ RunOver(s)
  /\ UNCHANGED << folders, call >>

\* ------------------------------------- station actions (lines 137-188, 388-410)
\* the radio button without a subfolder chosen
NoSubfolder == ""

target_filename(station_id, target_type, subfolder) ==
  IF target_type = "root"
  THEN station_id \o "_Root.atn"
  ELSE station_id \o "_" \o subfolder \o ".atn"

trigger_path(station_id, target_type, subfolder) ==
  IF target_type = "root"
  THEN "/" \o station_id \o "/incoming/_trigger_reload.jpg"
  ELSE "/" \o station_id \o "/incoming/" \o subfolder \o "/_trigger_reload.jpg"

action_path(station_id, target_type, subfolder) ==
  "/" \o station_id \o "/actions/" \o target_filename(station_id, target_type, subfolder)

\* create_trigger_image: a 10x10 red JPEG
create_trigger_image == [kind |-> "jpeg", color |-> "red", size |-> 10]

\* the first upload's failure swallowed: the trigger is uploaded anyway
after_action_upload_always(action_ok) == "upload_trigger"

\* What upload_action_to_station does once its first upload has returned:
\* the trigger is uploaded only after the action file, and any exception
\* ends the call with (False, message).
after_action_upload(action_ok) ==
  IF action_ok THEN "upload_trigger" ELSE "return_false"

\* the trigger upload's failure swallowed: the call reports success
after_trigger_upload_ignored(trigger_ok) == TRUE

\* what upload_action_to_station returns once the trigger upload is over
after_trigger_upload(trigger_ok) == trigger_ok

\* lines 388-404 and 150-167: "Upload & Apply" up to the upload of the
\* action file
UploadAction(s) ==
  /\ TabsShown(s)
  /\ CanWrite(2)
  /\ \E target \in {"root", "subfolder"}, uploaded_action \in Blobs,
        create_ok \in BOOLEAN, ok \in BOOLEAN :
       \E subfolder \in (IF target = "root" THEN {NoSubfolder} ELSE Subfolders) :
         LET st == selected_station[s]
             path == action_path(st, target, subfolder)
             next == after_action_upload(ok)
             made == ensure_station_folders(folders, st, create_ok)
         IN /\ folders' = IF subfolder # NoSubfolder /\ create_ok
                          THEN made \cup {"/" \o st \o "/incoming/" \o subfolder}
                          ELSE made
            /\ files' = IF ok THEN files_upload(files, path, uploaded_action) ELSE files
            /\ log' = Append(log, Entry(s, "upload_action", st, path, ok,
                                        uploaded_action, None, subfolder))
            /\ IF next = "upload_trigger"
               THEN /\ call' = [call EXCEPT ![s] =
                                  [active |-> TRUE, station_id |-> st,
                                   target_type |-> target, subfolder |-> subfolder]]
                    /\ pc' = [pc EXCEPT ![s] = "uploading"]
                    /\ UNCHANGED << selected_station, config, is_enabled, startup >>
               ELSE /\ call' = [call EXCEPT ![s] =
                                  [active |-> FALSE, success |-> FALSE, uploads |-> 1]]
                    /\ RunOver(s)
  /\ status' = [status EXCEPT ![s] = status_label(is_enabled[s])]
  /\ UNCHANGED exc

\* lines 169-180 and 406-410: the trigger upload, the return of
\* upload_action_to_station and the rest of the run
UploadTrigger(s) ==
  /\ pc[s] = "uploading"
  /\ \E ok \in BOOLEAN :
       LET c == call[s]
           path == trigger_path(c.station_id, c.target_type, c.subfolder)
       IN /\ files' = IF ok THEN files_upload(files, path, create_trigger_image)
                      ELSE files
          /\ log' = Append(log, Entry(s, "upload_trigger", c.station_id, path, ok,
                                      create_trigger_image, None, c.subfolder))
          /\ call' = [call EXCEPT ![s] =
                        [active |-> FALSE, success |-> after_trigger_upload(ok),
                         uploads |-> 2]]
  /\ RunOver(s)
  /\ UNCHANGED << folders, status, exc >>

\* ------------------------------------------------------------------- Next
\* One step of the script run of session s.  Streamlit runs the script anew
\* on every widget event, so a run carries one interaction of the operator.
Step(s) ==
  \/ Connect(s)
  \/ Render(s)
  \/ ConfigMissing(s)
  \/ Initialize(s)
  \/ Toggle(s)
  \/ StationOff(s)
  \/ ViewTabs(s)
  \/ SetRemoveBackground(s)
  \/ SetTemperature(s)
  \/ SetOrientation(s)
  \/ UploadBG(s)
  \/ UploadOverlay(s)
  \/ UploadGlobal(s)
  \/ UploadAction(s)
  \/ UploadTrigger(s)

Next == \E s \in Sessions : Step(s)

Spec == Init /\ [][Next]_vars

TypeOK ==
  /\ Len(log) <= MaxLog
  /\ \A s \in Sessions :
       pc[s] \in {"idle", "halted", "connected", "loaded", "uploading"}

\* ----------------------------------------------------------------- claims
Last(q) == q[Len(q)]

Grew == Len(log') = Len(log) + 1

ConfigOps == { "create_default_config", "save_config" }

\* the value of an edited field in a config document
field(doc, key) ==
  IF key = "station_enabled" THEN get_station_enabled(doc) ELSE doc.settings[key]

\* entry j is the last successful write to its path
LastWriteTo(j) ==
  \A k \in (j + 1) .. Len(log) : ~(log[k].ok /\ log[k].path = log[j].path)

\* two sessions loaded the same document of one station, each changed a
\* different field, and both saves went through, i before j
RacingSaves(i, j) ==
  /\ i < j
  /\ log[i].op = "save_config" /\ log[j].op = "save_config"
  /\ log[i].ok /\ log[j].ok
  /\ log[i].sess # log[j].sess
  /\ log[i].path = log[j].path
  /\ log[i].base = log[j].base
  /\ log[i].arg # log[j].arg

\* C1: when two sessions load the same config, change different fields and
\* both save, the stored document is the later session's in-memory document
\* as a whole, and the earlier session's edit is not in it.
C1_LaterSaveWinsInFull ==
  \A i \in 1 .. Len(log), j \in 1 .. Len(log) :
    (RacingSaves(i, j) /\ LastWriteTo(j)) =>
      /\ files[log[j].path] = log[j].data
      /\ field(json_load(files[log[j].path]), log[i].arg) = field(log[i].base, log[i].arg)
      /\ field(json_load(files[log[j].path]), log[i].arg)
           # field(json_load(log[i].data), log[i].arg)
      /\ field(json_load(files[log[j].path]), log[j].arg)
           = field(json_load(log[j].data), log[j].arg)

C1_Witness ==
  \E i \in 1 .. Len(log), j \in 1 .. Len(log) :
    /\ RacingSaves(i, j)
    /\ LastWriteTo(j)
    /\ log[i].arg = "station_enabled"
    /\ log[j].arg = "temperature"
    /\ get_station_enabled(json_load(files[log[j].path]))

\* the document load_config gives right after a successful
\* create_default_config of station st, nothing failing
LoadedAfterCreate(st) == load_config(files, st, TRUE)

JustCreated(st) ==
  /\ Len(log) > 0
  /\ Last(log).op = "create_default_config"
  /\ Last(log).ok
  /\ Last(log).station = st

DefaultSettings(d) ==
  /\ d # None
  /\ d.station_enabled = TRUE
  /\ d.settings.remove_background = FALSE
  /\ d.settings.remove_bg_api_key = ""
  /\ d.settings.orientation_mode = "auto"
  /\ d.settings.temperature = 0

C3_NoUncaughtException ==
  \A s \in Sessions : exc[s] = FALSE

\* C4 as stated: a run whose startup connection check failed halts, so it
\* reaches no station view, no config load and no storage write.
C4_CheckFailureHalts ==
  \A s \in Sessions :
    startup[s].check_failed => pc[s] \notin {"loaded", "uploading"}

\* C4 amended: missing credentials or a failure to construct the client is
\* fatal: the run halts with the error shown and nothing further is
\* reachable in that session (no retry, no station view, no config load, no
\* storage write); a failure of the connection check itself is ignored.
C4_FatalStartupHalts ==
  \A s \in Sessions :
    /\ startup[s].error # "" => pc[s] = "halted"
    /\ pc[s] = "halted" =>
         /\ startup[s].error # ""
         /\ config[s] = None
         /\ selected_station[s] = ""
         /\ status[s] = ""
         /\ ~ENABLED Step(s)

C4_Witness ==
  \E s \in Sessions, t \in Sessions :
    /\ pc[s] = "halted"
    /\ startup[s].error = "Missing Dropbox Credentials"
    /\ pc[t] = "loaded"
    /\ startup[t].check_failed

\* the paths a call of upload_action_to_station for station S writes
ExpectedActionPath(S, sub) ==
  IF sub = NoSubfolder
  THEN "/" \o S \o "/actions/" \o S \o "_Root.atn"
  ELSE "/" \o S \o "/actions/" \o S \o "_" \o sub \o ".atn"

ExpectedTriggerPath(S, sub) ==
  IF sub = NoSubfolder
  THEN "/" \o S \o "/incoming/_trigger_reload.jpg"
  ELSE "/" \o S \o "/incoming/" \o sub \o "/_trigger_reload.jpg"

\* files' is files with data stored at path, everything else as it was
Wrote(path, data) ==
  /\ DOMAIN files' = DOMAIN files \cup {path}
  /\ files'[path] = data
  /\ \A q \in DOMAIN files \ {path} : files'[q] = files[q]

\* C5: when the action upload of a call succeeded and its trigger upload
\* fails, nothing is rolled back: the action file stays where the call put
\* it, no trigger is written, the call returns failure and uploads nothing
\* again.
C5_NoRollbackAfterTriggerFailure ==
  [][\A s \in Sessions :
       /\ (pc[s] = "loaded" /\ pc'[s] = "uploading") =>
            /\ Grew
            /\ Last(log').path = ExpectedActionPath(Last(log').station, Last(log').arg)
            /\ Wrote(Last(log').path, Last(log').data)
       /\ (pc[s] = "uploading" /\ pc'[s] # "uploading" /\ ~Last(log').ok) =>
            /\ files' = files
            /\ ExpectedActionPath(call[s].station_id, call[s].subfolder) \in DOMAIN files'
            /\ Last(log').path = ExpectedTriggerPath(call[s].station_id, call[s].subfolder)
            /\ call'[s].success = FALSE
            /\ call'[s].uploads = 2
            /\ Grew
            /\ pc'[s] = "idle"
    ]_vars

C5_Witness ==
  \E s \in Sessions :
    /\ Len(log) = 2
    /\ log[1].sess = s /\ log[1].op = "upload_action" /\ log[1].ok
    /\ log[2].sess = s /\ log[2].op = "upload_trigger" /\ ~log[2].ok
    /\ log[1].path \in DOMAIN files
    /\ files[log[1].path] = log[1].data
    /\ log[2].path \notin DOMAIN files
    /\ "success" \in DOMAIN call[s]
    /\ ~call[s].success

\* C6: create_default_config is the only operation that brings a config
\* document into existence; every other config write is a save of a document
\* that was loaded from that path; nothing is ever deleted.
C6_OnlyInitializeCreates ==
  [][/\ DOMAIN files \subseteq DOMAIN files'
     /\ \A st \in Stations :
          (config_path(st) \notin DOMAIN files /\ config_path(st) \in DOMAIN files') =>
            /\ Grew
            /\ Last(log').op = "create_default_config"
            /\ Last(log').station = st
     /\ (Grew /\ Last(log').op = "save_config") =>
            /\ Last(log').base # None
            /\ Last(log').base = config[Last(log').sess]
            /\ Last(log').path \in DOMAIN files
            /\ Last(log').path = config_path(selected_station[Last(log').sess])
    ]_vars

C6_Witness ==
  /\ Len(log) = 2
  /\ log[1].op = "create_default_config" /\ log[1].ok
  /\ log[1].station = KNOWN_STATIONS[9]
  /\ log[2].op = "save_config" /\ log[2].ok
  /\ log[2].path = log[1].path
  /\ log[2].sess # log[1].sess

\* the config document of the run of s once the master switch has been
\* handled: the loaded document, with station_enabled set when the operator
\* flipped the toggle
DocAfterSwitch(s) ==
  IF Grew /\ Last(log').sess = s /\ Last(log').arg = "station_enabled"
  THEN json_load(Last(log').data)
  ELSE config[s]

ExpectedTemplatePath(op, S, X) ==
  IF op = "Upload BG"
  THEN IF X # "" THEN "/" \o S \o "/templates/background" \o X \o ".jpg"
       ELSE "/" \o S \o "/templates/background.jpg"
  ELSE IF X # "" THEN "/" \o S \o "/templates/overlay" \o X \o ".png"
       ELSE "/" \o S \o "/templates/overlay.png"

\* C8: a template upload for station S with suffix X writes
\* /S/templates/backgroundX.jpg or /S/templates/overlayX.png, with no suffix
\* the un-suffixed name, and no other path.
C8_TemplatePath ==
  [][(Grew /\ Last(log').op \in {"Upload BG", "Upload Overlay"}) =>
       LET e == Last(log') IN
       /\ e.station = selected_station[e.sess]
       /\ e.path = ExpectedTemplatePath(e.op, e.station, e.arg)
       /\ (e.op = "Upload BG" /\ e.station = "HP1" /\ e.arg = "007") =>
            e.path = "/HP1/templates/background007.jpg"
       /\ IF e.ok THEN Wrote(ExpectedTemplatePath(e.op, e.station, e.arg), e.data)
          ELSE files' = files
    ]_vars

C8_Witness ==
  /\ Len(log) = 2
  /\ log[1].op = "Upload BG" /\ log[1].ok /\ log[1].arg = "007"
  /\ log[1].station = "HP1"
  /\ "/HP1/templates/background007.jpg" \in DOMAIN files
  /\ log[2].op = "Upload Overlay" /\ log[2].ok /\ log[2].arg = ""
  /\ "/HP1/templates/overlay.png" \in DOMAIN files

\* C9: the document stored at /{s}/config.json has station_id = s, after
\* create_default_config(s) and whatever toggle and settings saves follow.
C9_StationIdKept ==
  \A st \in Stations :
    config_path(st) \in DOMAIN files =>
      /\ json_load(files[config_path(st)]) # None
      /\ json_load(files[config_path(st)]).station_id = st
      /\ \A i \in 1 .. Len(log) :
           (log[i].op \in ConfigOps /\ log[i].path = config_path(st)) =>
             json_load(log[i].data).station_id = st

C9_Witness ==
  \E st \in Stations :
    /\ Len(log) = 2
    /\ log[1].op = "create_default_config" /\ log[1].ok /\ log[1].station = st
    /\ log[2].op = "save_config" /\ log[2].ok /\ log[2].station = st
    /\ log[2].arg = "station_enabled"
    /\ json_load(files[config_path(st)]).station_id = st
    /\ ~json_load(files[config_path(st)]).station_enabled

\* entry i is the action upload of the call whose trigger upload is entry j
ActionOf(i, j) ==
  /\ i < j
  /\ log[i].sess = log[j].sess
  /\ log[i].op = "upload_action"
  /\ log[i].station = log[j].station
  /\ log[i].arg = log[j].arg
  /\ \A k \in (i + 1) .. (j - 1) : log[k].sess # log[j].sess

\* C10: within a call of upload_action_to_station the trigger is uploaded
\* only after the action file of the same call was uploaded successfully,
\* and the call returns success only when both uploads succeeded.
C10_ActionBeforeTrigger ==
  /\ \A j \in 1 .. Len(log) :
       log[j].op = "upload_trigger" =>
         /\ log[j].path = ExpectedTriggerPath(log[j].station, log[j].arg)
         /\ \E i \in 1 .. Len(log) :
              /\ ActionOf(i, j)
              /\ log[i].ok
              /\ log[i].path = ExpectedActionPath(log[j].station, log[j].arg)
  /\ \A s \in Sessions :
       ("success" \in DOMAIN call[s] /\ call[s].success) =>
         \E i \in 1 .. Len(log), j \in 1 .. Len(log) :
           /\ ActionOf(i, j)
           /\ log[j].sess = s
           /\ log[j].op = "upload_trigger"
           /\ log[i].ok /\ log[j].ok
           /\ log[j].path \in DOMAIN files
  /\ \A s \in Sessions :
       pc[s] = "uploading" =>
         /\ Len(log) > 0
         /\ \E i \in 1 .. Len(log) :
              /\ log[i].sess = s /\ log[i].op = "upload_action" /\ log[i].ok
              /\ \A k \in (i + 1) .. Len(log) : log[k].sess # s

C10_Witness ==
  \E s \in Sessions :
    /\ Len(log) = 2
    /\ log[1].sess = s /\ log[1].op = "upload_action" /\ log[1].ok
    /\ log[1].arg = SUBFOLDER_OPTIONS[1]
    /\ log[2].sess = s /\ log[2].op = "upload_trigger" /\ log[2].ok
    /\ files[log[2].path] = create_trigger_image
    /\ "success" \in DOMAIN call[s]
    /\ call[s].success

\* the run in progress of s loaded a document with station_enabled = false
LoadedDisabled(s) ==
  /\ pc[s] \in {"loaded", "uploading"}
  /\ config[s] # None
  /\ ~get_station_enabled(config[s])

\* C11: in a run whose loaded config has station_enabled = false the only
\* write is the save that sets station_enabled back to true: no settings
\* save, template upload, action upload, trigger write or global upload.
C11_DisabledOnlyReEnables ==
  [][\A s \in Sessions :
       LoadedDisabled(s) =>
         /\ pc[s] = "loaded"
         /\ ~is_enabled[s]
         /\ pc'[s] \in {"loaded", "idle"}
         /\ IF Grew /\ Last(log').sess = s
            THEN /\ Last(log').op = "save_config"
                 /\ Last(log').arg = "station_enabled"
                 /\ Last(log').path = config_path(selected_station[s])
                 /\ get_station_enabled(json_load(Last(log').data))
                 /\ json_load(Last(log').data).settings = config[s].settings
                 /\ IF Last(log').ok
                    THEN Wrote(config_path(selected_station[s]), Last(log').data)
                    ELSE files' = files
            ELSE pc'[s] # pc[s] => (files' = files /\ folders' = folders)
    ]_vars

C11_Witness ==
  \E s \in Sessions, t \in Sessions :
    /\ Len(log) = 2
    /\ log[1].sess = t /\ log[1].op = "save_config" /\ log[1].ok
    /\ log[1].arg = "station_enabled"
    /\ ~get_station_enabled(json_load(log[1].data))
    /\ log[2].sess = s /\ s # t
    /\ log[2].op = "save_config" /\ log[2].ok
    /\ log[2].arg = "station_enabled"
    /\ ~get_station_enabled(log[2].base)
    /\ get_station_enabled(json_load(files[log[2].path]))

====
